---- MODULE Spec2Model ----
(***************************************************************************)
(* Model of the ingest loop of the IoT monitor backend:                    *)
(*   services/data_collection.py  (DataCollectionSubsystem)                *)
(*   services/notifications.py    (NotificationSubsystem)                  *)
(*   models/equipment.py          (Sensor.validate_data, Alert)            *)
(*   routers/equipment.py         (update_equipment_status)                *)
(*   main.py                      (lifespan: the single background task)   *)
(*                                                                         *)
(* Sensor values are fixed-point numbers in hundredths (45.50 -> 4550), so *)
(* that round(x, 2) is an integer rounding.  Time is datetime.utcnow() in  *)
(* whole minutes.                                                          *)
(***************************************************************************)
EXTENDS Integers, Sequences, FiniteSets, TLC

\* ---------------------------------------------------------------- bounds
\* number of ingest cycles the model runs
MaxCycles == 2
\* number of direct filter_data calls (SpecFilter)
MaxCalls == 7
\* last minute of the clock
MaxTime == 6

\* ------------------------------------------------------ program constants
\* data_collection.py:62  self._noise_filter_window = 5
NoiseFilterWindow == 5
\* data_collection.py:270  timedelta(minutes=5)
CooldownMinutes == 5

\* models/equipment.py:21-26  SensorType
SensorTypes == {"temperature", "vibration", "pressure", "current"}

\* models/equipment.py:13-18  EquipmentStatus
EquipmentStatuses == {"online", "offline", "error", "maintenance"}

\* config.py:45-50  SENSOR_THRESHOLDS (hundredths)
SENSOR_THRESHOLDS ==
  [temperature |-> [warning |-> 7000,  critical |-> 8500],
   vibration   |-> [warning |-> 500,   critical |-> 750],
   pressure    |-> [warning |-> 35000, critical |-> 45000],
   current     |-> [warning |-> 3500,  critical |-> 4500]]

\* models/equipment.py:147-152  ranges of Sensor.validate_data (hundredths)
ValidRanges ==
  [temperature |-> [min |-> -5000, max |-> 20000],
   vibration   |-> [min |-> 0,     max |-> 5000],
   pressure    |-> [min |-> 0,     max |-> 100000],
   current     |-> [min |-> 0,     max |-> 10000]]

\* ------------------------------------------------- the database's content
\* The sensors table: two temperature sensors on different equipment;
\* db.query(Sensor).all() returns them in id order.
Equipments == {1, 2}
SensorTypeOf == <<"temperature", "temperature">>
SensorEquipment == <<1, 2>>
NumSensors == Len(SensorTypeOf)
Sensors == 1..NumSensors

\* The users table: seed_database creates users, each with an email.
Recipients == {"operator@test.com", "admin@test.com"}

\* Raw readings receive_sensor_data can return for a sensor (all >= 0, line
\* 171): a nominal value, one above the critical level and, for sensor 1, one
\* above the physical range of its type.
RawValues(s) == IF s = 1 THEN {5000, 9000, 25000} ELSE {5000, 9000}

\* The equipment table when the process starts (seed_database creates
\* equipment that is online, offline and in error; earlier runs leave any).
InitialStatuses ==
  { <<"online", "offline">>, <<"maintenance", "error">> }

\* The status a request to update_equipment_status asks for: an operator
\* puts equipment that is in error back to work.
RequestedStatuses == {"online"}

\* The keys and values of direct filter_data calls (SpecFilter).
FilterKeys == {"temperature", "vibration"}
FilterValues(key) == IF key = "temperature" THEN {5000, 9000} ELSE {301, 800}

\* What one call of notify_critical_alert can meet.
NotifierOutcomes == {"not_configured", "smtp_error", "sent", "raised"}

VARIABLES
  pc,             \* position of the background task: "start", "cycle",
                  \* "sleep", "cancelled"
  shutdown,       \* position of lifespan: "running", "cancel_requested", "done"
  idx,            \* index of the next sensor of the for loop (line 95)
  cycle_no,       \* number of _collection_cycle calls started
  active,         \* number of _collection_cycle calls in progress
  clock,          \* datetime.utcnow(), minutes
  recent_values,  \* self._recent_values: key -> list of raw values
  db_status,      \* committed Equipment.status
  sess_status,    \* Equipment.status as the cycle's session sees it
  db_alerts,      \* committed Alert rows
  sess_alerts,    \* Alert rows flushed by the open session, not committed
  db_readings,    \* committed SensorData rows of the current cycle
  sess_readings,  \* SensorData rows added to the open session
  raw_log,        \* history: every value passed to filter_data, per key
  filter_out,     \* history: key and return value of the last filter_data call
  own_raw,        \* history: the last raw values read from each sensor
  ev,             \* history: what the last loop iteration did
  processed,      \* history: the sensors the current cycle has processed
  cycle_alerts,   \* history: ids of the alerts the current cycle created
  last_outcome,   \* history: how the last cycle ended
  classifier,     \* AnalysisSubsystem: what _initialize_models left behind
  pred_in,        \* the features of the predict_failure call in progress
  pred_out,       \* what that predict_failure call returns
  recheck,        \* history: what a second _check_thresholds call did
  call,           \* the analysis call in progress: operation and arguments
  ret             \* what that call has computed so far, or returns

ingest_vars == <<pc, shutdown, idx, cycle_no, active, clock, recent_values, db_status,
          sess_status, db_alerts, sess_alerts, db_readings, sess_readings,
          raw_log, filter_out, own_raw, ev, processed, cycle_alerts,
          last_outcome>>

analysis_vars == <<classifier, pred_in, pred_out>>

calc_vars == <<call, ret>>

vars == <<ingest_vars, analysis_vars, recheck, calc_vars>>

\* ------------------------------------------------------------ arithmetic
RECURSIVE SumSeq(_)
SumSeq(q) == IF q = <<>> THEN 0 ELSE Head(q) + SumSeq(Tail(q))

\* round(num / den) to the nearest integer, ties to even (Python's round);
\* num >= 0, den > 0
RoundDiv(num, den) ==
  LET quo == num \div den
      rem == num % den
  IN  IF 2 * rem < den THEN quo
      ELSE IF 2 * rem > den THEN quo + 1
      ELSE IF quo % 2 = 0 THEN quo ELSE quo + 1

\* the last n elements of q (all of q when it is shorter)
LastN(q, n) ==
  IF Len(q) <= n THEN q ELSE SubSeq(q, Len(q) - n + 1, Len(q))

Min(a, b) == IF a < b THEN a ELSE b

Abs(x) == IF x < 0 THEN -x ELSE x

\* ------------------------------------------------ DataCollectionSubsystem
\* faulty variant of filter_data: a full window drops the value just appended
filter_data_keeps_oldest(rv, value, key) ==
  LET appended == Append(rv[key], value)
  IN  [rv EXCEPT ![key] =
         IF Len(appended) > NoiseFilterWindow
           THEN SubSeq(appended, 1, NoiseFilterWindow) ELSE appended]

\* filter_data, lines 182-191: append, then evict the oldest value
filter_data(rv, value, key) ==
  LET appended == Append(rv[key], value)
  IN  [rv EXCEPT ![key] =
         IF Len(appended) > NoiseFilterWindow THEN Tail(appended) ELSE appended]

\* filter_data, line 194: round(sum(h) / len(h), 2)
FilterMean(h) == RoundDiv(SumSeq(h), Len(h))

\* Sensor.validate_data
validate_data(type, value) ==
  /\ ValidRanges[type].min <= value
  /\ value <= ValidRanges[type].max

\* faulty variant of ThresholdSeverity: a value equal to a threshold is below it
ThresholdSeverity_strict(type, value) ==
  IF type \notin DOMAIN SENSOR_THRESHOLDS THEN "none"
  ELSE IF value > SENSOR_THRESHOLDS[type].critical THEN "critical"
  ELSE IF value > SENSOR_THRESHOLDS[type].warning THEN "warning"
  ELSE "none"

\* _check_thresholds, lines 246-265: the severity of a value
ThresholdSeverity(type, value) ==
  IF type \notin DOMAIN SENSOR_THRESHOLDS THEN "none"
  ELSE IF value >= SENSOR_THRESHOLDS[type].critical THEN "critical"
  ELSE IF value >= SENSOR_THRESHOLDS[type].warning THEN "warning"
  ELSE "none"

\* faulty variant of StatusAfterCheck: a warning marks the equipment too
StatusAfterCheck_on_any_alert(status, eq, sev) ==
  IF sev # "none" THEN [status EXCEPT ![eq] = "error"] ELSE status

\* _check_thresholds, lines 255-261: equipment.status = ERROR on critical
StatusAfterCheck(status, eq, sev) ==
  IF sev = "critical" THEN [status EXCEPT ![eq] = "error"] ELSE status

\* faulty variant of recent_alert: the window excludes its 5-minute boundary
recent_alert_open_window(alerts, sensor, sev, now) ==
  {a \in alerts : /\ a.sensor_id = sensor
                  /\ a.severity = sev
                  /\ a.timestamp > now - CooldownMinutes}

\* faulty variant of recent_alert: no cooldown for equipment that is in error
recent_alert_unless_error(alerts, sensor, sev, now) ==
  IF sess_status[SensorEquipment[sensor]] = "error" THEN {}
  ELSE {a \in alerts : /\ a.sensor_id = sensor
                       /\ a.severity = sev
                       /\ a.timestamp >= now - CooldownMinutes}

\* faulty variant of recent_alert: the query does not filter on severity
recent_alert_any_severity(alerts, sensor, sev, now) ==
  {a \in alerts : /\ a.sensor_id = sensor
                  /\ a.timestamp >= now - CooldownMinutes}

\* _check_thresholds, lines 270-279: the alerts of the cooldown query
recent_alert(alerts, sensor, sev, now) ==
  {a \in alerts : /\ a.sensor_id = sensor
                  /\ a.severity = sev
                  /\ a.timestamp >= now - CooldownMinutes}

\* faulty variant of ShouldNotify: every new alert is mailed
ShouldNotify_any_severity(sev) == sev \in {"critical", "warning"}

\* _check_thresholds, line 295: email only for critical alerts
ShouldNotify(sev) == sev = "critical"

\* faulty variant of NotifierExceptionCaught: the call is not guarded
NotifierExceptionPropagates == FALSE

\* _check_thresholds, lines 296-302: try / except Exception around the notifier
NotifierExceptionCaught == TRUE

\* NotificationSubsystem.send_alert / _send_email: TRUE iff the mail went out
send_alert(recipients, outcome) ==
  IF recipients = {} THEN FALSE ELSE outcome = "sent"

\* NotificationSubsystem.notify_critical_alert: what the call does to the
\* alert and to the session
notify_critical_alert(alert, outcome) ==
  LET called == [alert EXCEPT !.notify_calls = @ + 1]
  IN  IF outcome = "raised"
        THEN [alert |-> called, commit |-> FALSE, raised |-> TRUE]
      ELSE IF Recipients = {}
        THEN [alert |-> called, commit |-> FALSE, raised |-> FALSE]
      ELSE [alert |-> [called EXCEPT
                         !.is_email_sent = 1,
                         !.delivered = send_alert(Recipients, outcome)],
            commit |-> TRUE, raised |-> FALSE]

\* faulty variant of LoopMayStartCycle: the loop does not await the cycle
LoopStartsWithoutAwait == pc \in {"start", "sleep", "cycle"}

\* start_data_collection, lines 80-86: the loop calls the cycle at task start
\* and after each sleep, awaiting it
LoopMayStartCycle == pc \in {"start", "sleep"}

NoEvent ==
  [cycle |-> 0, sensor |-> 0, raw |-> 0, filtered |-> 0, stored |-> FALSE,
   severity |-> "none", created |-> 0, notify_calls |-> 0,
   status_before |-> <<>>]

NoRecheck == [cycle |-> 0, sensor |-> 0]

NoFilterCall == [key |-> "none", value |-> 0]

NoFeatures == [equipment_status |-> "none"]

NoPrediction == [risk_level |-> "none"]

NoRequest == [op |-> "none"]

NoResult == [kind |-> "none"]

Init ==
  /\ pc = "start"
  /\ shutdown = "running"
  /\ idx = 0
  /\ cycle_no = 0
  /\ active = 0
  /\ clock = 0
  /\ recent_values = [k \in SensorTypes |-> <<>>]
  /\ db_status \in InitialStatuses
  /\ sess_status = db_status
  /\ db_alerts = {}
  /\ sess_alerts = {}
  /\ db_readings = {}
  /\ sess_readings = {}
  /\ raw_log = [k \in SensorTypes |-> <<>>]
  /\ filter_out = NoFilterCall
  /\ own_raw = [s \in Sensors |-> <<>>]
  /\ ev = NoEvent
  /\ processed = {}
  /\ cycle_alerts = {}
  /\ last_outcome = "none"
  /\ classifier = "unconstructed"
  /\ pred_in = NoFeatures
  /\ pred_out = NoPrediction
  /\ recheck = NoRecheck
  /\ call = NoRequest
  /\ ret = NoResult

\* _collection_cycle, lines 90-93: open the session, query the sensors
StartCycle ==
  /\ UNCHANGED <<analysis_vars, recheck, calc_vars>>
  /\ LoopMayStartCycle
  /\ shutdown = "running"
  /\ cycle_no < MaxCycles
  /\ pc' = "cycle"
  /\ idx' = 1
  /\ cycle_no' = cycle_no + 1
  /\ active' = active + 1
  /\ sess_status' = db_status
  /\ sess_alerts' = {}
  /\ sess_readings' = {}
  /\ db_readings' = {}
  /\ processed' = {}
  /\ cycle_alerts' = {}
  /\ UNCHANGED <<shutdown, clock, recent_values, db_status, db_alerts,
                 raw_log, filter_out, own_raw, ev, last_outcome>>

\* _collection_cycle, lines 95-108: one iteration of the for loop, with the
\* calls of filter_data, validate_data, store_data and _check_thresholds
ProcessSensor ==
  /\ UNCHANGED <<analysis_vars, recheck, calc_vars>>
  /\ pc = "cycle"
  /\ idx <= NumSensors
  /\ \E raw \in RawValues(idx) :
       LET s         == idx
           type      == SensorTypeOf[s]
           eq        == SensorEquipment[s]
           rv        == filter_data(recent_values, raw, type)
           filtered  == FilterMean(rv[type])
           valid     == validate_data(type, filtered)
           sev       == IF valid THEN ThresholdSeverity(type, filtered) ELSE "none"
           status1   == IF valid THEN StatusAfterCheck(sess_status, eq, sev)
                                 ELSE sess_status
           reading   == [sensor_id |-> s, value |-> filtered]
           readings1 == IF valid THEN sess_readings \cup {reading} ELSE sess_readings
           visible   == db_alerts \cup sess_alerts
           recent    == recent_alert(visible, s, sev, clock)
           create    == sev # "none" /\ recent = {}
           alert     == [id |-> Cardinality(visible) + 1, sensor_id |-> s,
                         equipment_id |-> eq, severity |-> sev,
                         timestamp |-> clock, is_email_sent |-> 0,
                         notify_calls |-> 0, delivered |-> FALSE]
           notify    == create /\ ShouldNotify(sev)
       IN  \E outcome \in (IF notify THEN NotifierOutcomes ELSE {"not_called"}) :
             LET res      == notify_critical_alert(alert, outcome)
                 escaped  == notify /\ res.raised /\ ~NotifierExceptionCaught
                 commits  == notify /\ res.commit
                 alerts1  == IF ~create THEN sess_alerts
                             ELSE IF notify THEN sess_alerts \cup {res.alert}
                             ELSE sess_alerts \cup {alert}
             IN  /\ recent_values' = rv
                 /\ filter_out' = [key |-> type, value |-> filtered]
                 /\ own_raw' = [own_raw EXCEPT ![s] =
                                  LastN(Append(@, raw), NoiseFilterWindow)]
                 /\ ev' = [cycle |-> cycle_no, sensor |-> s, raw |-> raw,
                           filtered |-> filtered, stored |-> valid,
                           severity |-> sev,
                           created |-> IF create THEN alert.id ELSE 0,
                           notify_calls |-> IF notify THEN 1 ELSE 0,
                           status_before |-> sess_status]
                 /\ processed' = processed \cup {s}
                 /\ cycle_alerts' = IF create THEN cycle_alerts \cup {alert.id}
                                              ELSE cycle_alerts
                 /\ IF escaped
                      THEN \* the exception leaves the cycle: db.close(), line 114
                           /\ pc' = "sleep"
                           /\ idx' = 0
                           /\ active' = active - 1
                           /\ sess_status' = db_status
                           /\ sess_alerts' = {}
                           /\ sess_readings' = {}
                           /\ last_outcome' = "raised"
                           /\ UNCHANGED <<db_status, db_alerts, db_readings>>
                      ELSE /\ pc' = "cycle"
                           /\ idx' = idx + 1
                           /\ active' = active
                           /\ sess_status' = status1
                           /\ last_outcome' = last_outcome
                           /\ IF commits
                                THEN \* db.commit() of notify_critical_alert, line 190
                                     /\ db_status' = status1
                                     /\ db_alerts' = db_alerts \cup alerts1
                                     /\ db_readings' = db_readings \cup readings1
                                     /\ sess_alerts' = {}
                                     /\ sess_readings' = {}
                                ELSE /\ sess_alerts' = alerts1
                                     /\ sess_readings' = readings1
                                     /\ UNCHANGED <<db_status, db_alerts, db_readings>>
                 /\ UNCHANGED <<shutdown, cycle_no, clock, raw_log>>

\* _collection_cycle, lines 110-114: db.commit() and db.close(); the cycle
\* returns and the loop goes to sleep (line 86)
CommitCycle ==
  /\ UNCHANGED <<analysis_vars, recheck, calc_vars>>
  /\ pc = "cycle"
  /\ idx = NumSensors + 1
  /\ pc' = "sleep"
  /\ idx' = 0
  /\ active' = active - 1
  /\ db_status' = sess_status
  /\ db_alerts' = db_alerts \cup sess_alerts
  /\ db_readings' = db_readings \cup sess_readings
  /\ sess_alerts' = {}
  /\ sess_readings' = {}
  /\ last_outcome' = "committed"
  /\ UNCHANGED <<shutdown, cycle_no, clock, recent_values, sess_status,
                 raw_log, filter_out, own_raw, ev, processed, cycle_alerts>>

\* A database call of the cycle (query, flush, commit) raises: the finally
\* clause closes the session, which discards what was not committed, and
\* start_data_collection catches and logs the exception (lines 83-84)
CycleRaises ==
  /\ UNCHANGED <<analysis_vars, recheck, calc_vars>>
  /\ pc = "cycle"
  /\ pc' = "sleep"
  /\ idx' = 0
  /\ active' = active - 1
  /\ sess_status' = db_status
  /\ sess_alerts' = {}
  /\ sess_readings' = {}
  /\ last_outcome' = "raised"
  /\ UNCHANGED <<shutdown, cycle_no, clock, recent_values, db_status,
                 db_alerts, db_readings, raw_log, filter_out, own_raw, ev,
                 processed, cycle_alerts>>

\* _check_thresholds, lines 239-302, called a second time for the sensor the
\* loop has just processed, with the same value, in the same session and at
\* the same reading of the clock
CheckThresholdsAgain ==
  /\ UNCHANGED <<analysis_vars, calc_vars>>
  /\ pc = "cycle"
  /\ idx > 1
  /\ ev.cycle = cycle_no
  /\ ev.sensor = idx - 1
  /\ ev.stored
  /\ ~(recheck.cycle = cycle_no /\ recheck.sensor = ev.sensor)
  /\ LET s       == ev.sensor
         type    == SensorTypeOf[s]
         eq      == SensorEquipment[s]
         sev     == ThresholdSeverity(type, ev.filtered)
         status1 == StatusAfterCheck(sess_status, eq, sev)
         visible == db_alerts \cup sess_alerts
         recent  == recent_alert(visible, s, sev, clock)
         create  == sev # "none" /\ recent = {}
         alert   == [id |-> Cardinality(visible) + 1, sensor_id |-> s,
                     equipment_id |-> eq, severity |-> sev,
                     timestamp |-> clock, is_email_sent |-> 0,
                     notify_calls |-> 0, delivered |-> FALSE]
         notify  == create /\ ShouldNotify(sev)
     IN  \E outcome \in (IF notify THEN NotifierOutcomes ELSE {"not_called"}) :
           LET res     == notify_critical_alert(alert, outcome)
               escaped == notify /\ res.raised /\ ~NotifierExceptionCaught
               commits == notify /\ res.commit
               alerts1 == IF ~create THEN sess_alerts
                          ELSE IF notify THEN sess_alerts \cup {res.alert}
                          ELSE sess_alerts \cup {alert}
           IN  /\ recheck' = [cycle |-> cycle_no, sensor |-> s,
                              severity |-> sev,
                              created |-> IF create THEN alert.id ELSE 0,
                              alerts_before |-> visible,
                              status_before |-> sess_status]
               /\ cycle_alerts' = IF create THEN cycle_alerts \cup {alert.id}
                                            ELSE cycle_alerts
               /\ IF escaped
                    THEN /\ pc' = "sleep"
                         /\ idx' = 0
                         /\ active' = active - 1
                         /\ sess_status' = db_status
                         /\ sess_alerts' = {}
                         /\ sess_readings' = {}
                         /\ last_outcome' = "raised"
                         /\ UNCHANGED <<db_status, db_alerts, db_readings>>
                    ELSE /\ UNCHANGED <<pc, idx, active, last_outcome>>
                         /\ sess_status' = status1
                         /\ IF commits
                              THEN /\ db_status' = status1
                                   /\ db_alerts' = db_alerts \cup alerts1
                                   /\ db_readings' = db_readings \cup sess_readings
                                   /\ sess_alerts' = {}
                                   /\ sess_readings' = {}
                              ELSE /\ sess_alerts' = alerts1
                                   /\ UNCHANGED <<db_status, db_alerts,
                                                  db_readings, sess_readings>>
  /\ UNCHANGED <<shutdown, cycle_no, clock, recent_values, raw_log, filter_out,
                 own_raw, ev, processed>>

\* time passes while the task sleeps (asyncio.sleep, line 86)
Tick ==
  /\ UNCHANGED <<analysis_vars, recheck, calc_vars>>
  /\ pc = "sleep"
  /\ cycle_no < MaxCycles
  /\ clock < MaxTime
  /\ clock' = clock + 1
  /\ UNCHANGED <<pc, shutdown, idx, cycle_no, active, recent_values, db_status,
                 sess_status, db_alerts, sess_alerts, db_readings,
                 sess_readings, raw_log, filter_out, own_raw, ev, processed,
                 cycle_alerts, last_outcome>>

\* routers/equipment.py, update_equipment_status: a request handler, which
\* the event loop runs only while the background task sleeps
update_equipment_status ==
  /\ UNCHANGED <<analysis_vars, recheck, calc_vars>>
  /\ pc = "sleep"
  /\ cycle_no < MaxCycles
  /\ \E eq \in Equipments, new_status \in RequestedStatuses :
       /\ db_status[eq] = "error"
       /\ db_status' = [db_status EXCEPT ![eq] = new_status]
       /\ sess_status' = db_status'
  /\ UNCHANGED <<pc, shutdown, idx, cycle_no, active, clock, recent_values, db_alerts,
                 sess_alerts, db_readings, sess_readings, raw_log, filter_out,
                 own_raw, ev, processed, cycle_alerts, last_outcome>>

\* faulty variant of CycleYields: the cycle awaits between two sensors
CycleYieldsBetweenSensors == TRUE

\* _collection_cycle, lines 88-114: the body of the cycle has no await, so
\* the task does not give up the event loop inside a cycle
CycleYields == FALSE

\* the task is suspended at an await: not yet run, or in asyncio.sleep
\* (line 86)
TaskSuspended ==
  \/ pc \in {"start", "sleep"}
  \/ CycleYields /\ pc = "cycle"

\* main.py, lines 54-55: lifespan cancels the task; the event loop runs
\* lifespan only while the task is suspended
RequestCancel ==
  /\ UNCHANGED <<analysis_vars, recheck, calc_vars>>
  /\ shutdown = "running"
  /\ TaskSuspended
  /\ shutdown' = "cancel_requested"
  /\ UNCHANGED <<pc, idx, cycle_no, active, clock, recent_values, db_status,
                 sess_status, db_alerts, sess_alerts, db_readings,
                 sess_readings, raw_log, filter_out, own_raw, ev, processed,
                 cycle_alerts, last_outcome>>

\* CancelledError is thrown into the task at the await where it is suspended;
\* inside a cycle the finally clause closes the session (line 114)
DeliverCancel ==
  /\ UNCHANGED <<analysis_vars, recheck, calc_vars>>
  /\ shutdown = "cancel_requested"
  /\ TaskSuspended
  /\ pc' = "cancelled"
  /\ idx' = 0
  /\ active' = IF pc = "cycle" THEN active - 1 ELSE active
  /\ sess_status' = db_status
  /\ sess_alerts' = {}
  /\ sess_readings' = {}
  /\ UNCHANGED <<shutdown, cycle_no, clock, recent_values, db_status,
                 db_alerts, db_readings, raw_log, filter_out, own_raw, ev,
                 processed, cycle_alerts, last_outcome>>

\* main.py, lines 56-60: await data_generation_task raises CancelledError,
\* which lifespan swallows
ShutdownReturns ==
  /\ UNCHANGED <<analysis_vars, recheck, calc_vars>>
  /\ shutdown = "cancel_requested"
  /\ pc = "cancelled"
  /\ shutdown' = "done"
  /\ UNCHANGED <<pc, idx, cycle_no, active, clock, recent_values, db_status,
                 sess_status, db_alerts, sess_alerts, db_readings,
                 sess_readings, raw_log, filter_out, own_raw, ev, processed,
                 cycle_alerts, last_outcome>>

\* ------------------------------------------------------- AnalysisSubsystem
\* Probabilities are fixed-point numbers in thousandths (0.15 -> 150); the
\* probability and confidence fields of a prediction are in hundredths.

\* the order of equipment.sensors (seed.py, lines 127-132)
SensorTypeOrder == <<"temperature", "vibration", "pressure", "current">>

\* What _initialize_models can leave behind: the import or a constructor
\* raised; no artifact was found and a forest was trained in the process; an
\* artifact was loaded, which is the pickled dict of model and scaler, the
\* scaler of the predictor staying unfitted; the artifact could not be read.
ClassifierStates == {"not_loaded", "trained", "unpickled", "no_model"}

\* Class probabilities predict_proba returns for a trained forest.
ClassifierProbabilities == {40, 796, 1000}

\* What _extract_features finds for one sensor type: no data of the last 24
\* hours, or the current value (just below the warning level, at the warning
\* level, at the critical level) and the trend of _calculate_trend.
SensorFeatureChoices ==
  {[present |-> FALSE, level |-> "below", trend |-> "stable"]}
  \cup {[present |-> TRUE, level |-> c[1], trend |-> c[2]] :
          c \in {<<"below", "stable">>, <<"warning", "stable">>,
                 <<"critical", "stable">>, <<"below", "increasing">>,
                 <<"warning", "increasing">>, <<"below", "decreasing">>}}

\* features["sensors"][type]["current"], in hundredths
CurrentValue(features, type) ==
  LET level == features.sensors[type].level
  IN  CASE level = "critical" -> SENSOR_THRESHOLDS[type].critical
        [] level = "warning"  -> SENSOR_THRESHOLDS[type].warning
        [] OTHER              -> SENSOR_THRESHOLDS[type].warning - 1

\* the loops over features["sensors"] skip a type without data or thresholds
HasFeatures(features, type) ==
  features.sensors[type].present /\ type \in DOMAIN SENSOR_THRESHOLDS

\* _heuristic_prediction, lines 284-302: what one sensor type adds
SensorContribution(features, type) ==
  IF ~HasFeatures(features, type) THEN 0
  ELSE (IF CurrentValue(features, type) >= SENSOR_THRESHOLDS[type].critical
          THEN 300
        ELSE IF CurrentValue(features, type) >= SENSOR_THRESHOLDS[type].warning
          THEN 150
        ELSE 0)
       + (IF features.sensors[type].trend = "increasing" THEN 50 ELSE 0)

RECURSIVE SumContributions(_, _)
SumContributions(features, i) ==
  IF i > Len(SensorTypeOrder) THEN 0
  ELSE SensorContribution(features, SensorTypeOrder[i])
       + SumContributions(features, i + 1)

\* _heuristic_prediction, lines 276-282: base probability and status
StatusContribution(features) ==
  100 + (IF features.equipment_status = "error" THEN 400
         ELSE IF features.equipment_status = "offline" THEN 200
         ELSE 0)

\* faulty variant of heuristic_prediction: the sum is not clamped
heuristic_prediction_unclamped(features) ==
  StatusContribution(features) + SumContributions(features, 1)

\* faulty variant of heuristic_prediction: an increasing trend adds nothing
heuristic_prediction_no_trend(features) ==
  Min(StatusContribution(features)
        + SumContributions([features EXCEPT !.sensors =
                              [k \in DOMAIN @ |-> [@[k] EXCEPT !.trend = "stable"]]], 1),
      990)

\* _heuristic_prediction
heuristic_prediction(features) ==
  Min(StatusContribution(features) + SumContributions(features, 1), 990)

\* _get_risk_level
get_risk_level(probability) ==
  IF probability >= 800 THEN "critical"
  ELSE IF probability >= 600 THEN "high"
  ELSE IF probability >= 300 THEN "medium"
  ELSE "low"

\* The texts of the risk factors, as their words in lower case; the words of
\* the source are Russian, except the sensor type of a trend factor, which is
\* the value of the SensorType enum.
sensor_names ==
  [temperature |-> "temperatura", vibration |-> "vibratsiya",
   pressure |-> "davlenie", current |-> "tok"]

ErrorFactor == <<"oborudovanie", "v", "avariynom", "sostoyanii">>
ElevatedFactor(type) == <<"povyshennaya", sensor_names[type]>>
TrendFactor(type) == <<"rastushchiy", "trend:", type>>
NoFactors == <<"faktory", "riska", "ne", "vyyavleny">>

\* _identify_risk_factors, lines 323-342: the entries of one sensor type
SensorFactors(features, type) ==
  IF ~HasFeatures(features, type) THEN <<>>
  ELSE (IF CurrentValue(features, type) >= SENSOR_THRESHOLDS[type].warning
          THEN <<ElevatedFactor(type)>> ELSE <<>>)
       \o (IF features.sensors[type].trend = "increasing"
             THEN <<TrendFactor(type)>> ELSE <<>>)

RECURSIVE AllSensorFactors(_, _)
AllSensorFactors(features, i) ==
  IF i > Len(SensorTypeOrder) THEN <<>>
  ELSE SensorFactors(features, SensorTypeOrder[i])
       \o AllSensorFactors(features, i + 1)

\* faulty variant of identify_risk_factors: the placeholder is always appended
identify_risk_factors_with_placeholder(features) ==
  (IF features.equipment_status = "error" THEN <<ErrorFactor>> ELSE <<>>)
  \o AllSensorFactors(features, 1) \o <<NoFactors>>

\* _identify_risk_factors
identify_risk_factors(features) ==
  LET factors ==
        (IF features.equipment_status = "error" THEN <<ErrorFactor>> ELSE <<>>)
        \o AllSensorFactors(features, 1)
  IN  IF factors # <<>> THEN factors ELSE <<NoFactors>>

\* "word" in factor.lower()
Mentions(factor, word) == \E i \in 1..Len(factor) : factor[i] = word

\* _generate_recommendations, lines 355-365: the texts of the risk tier
TierRecommendations(risk_level) ==
  CASE risk_level = "critical" -> <<"stop_for_diagnostics", "call_technical_team">>
    [] risk_level = "high"     -> <<"schedule_urgent_maintenance", "intensify_monitoring">>
    [] risk_level = "medium"   -> <<"preventive_inspection", "check_sensor_calibration">>
    [] OTHER                   -> <<"continue_regular_monitoring">>

\* _generate_recommendations, lines 368-374: the loop over the factors
RECURSIVE FactorRecommendations(_, _)
FactorRecommendations(factors, i) ==
  IF i > Len(factors) THEN <<>>
  ELSE (IF Mentions(factors[i], "temperatura") THEN <<"check_cooling_system">>
        ELSE IF Mentions(factors[i], "vibratsiya") THEN <<"check_balance_and_mounting">>
        ELSE IF Mentions(factors[i], "davlenie") THEN <<"check_sealing">>
        ELSE <<>>)
       \o FactorRecommendations(factors, i + 1)

\* _generate_recommendations
generate_recommendations(risk_level, factors) ==
  TierRecommendations(risk_level) \o FactorRecommendations(factors, 1)

\* What a call of predict_probability can meet in a given classifier state.
RfOutcomes(state) ==
  IF state = "trained"
    THEN {[kind |-> "proba", p |-> x] : x \in ClassifierProbabilities}
         \cup {[kind |-> "exception", p |-> 0]}
    ELSE {[kind |-> "exception", p |-> 0]}

\* RandomForestPredictor.predict_probability: 0.5 when there is no model and
\* when transform or predict_proba raises; it raises nothing itself
predict_probability(state, outcome) ==
  IF state = "no_model"
    THEN [raised |-> FALSE, ok |-> FALSE, value |-> 500]
  ELSE IF state = "unpickled" \/ outcome.kind = "exception"
    THEN [raised |-> FALSE, ok |-> FALSE, value |-> 500]
  ELSE [raised |-> FALSE, ok |-> TRUE, value |-> outcome.p]

\* predict_failure, lines 202-236, for an existing equipment; the fields raw
\* and rf_ok record the unrounded probability and whether the classifier
\* produced it
predict_failure(features, state, outcome) ==
  LET models_loaded == state # "not_loaded"
      rf            == predict_probability(state, outcome)
      probability   == IF models_loaded
                         THEN IF rf.raised THEN heuristic_prediction(features)
                                           ELSE rf.value
                         ELSE heuristic_prediction(features)
      risk_level    == get_risk_level(probability)
      factors       == identify_risk_factors(features)
  IN  [probability     |-> RoundDiv(probability, 10),
       confidence      |-> IF models_loaded THEN 75 ELSE 50,
       risk_level      |-> risk_level,
       factors         |-> factors,
       recommendations |-> generate_recommendations(risk_level, factors),
       raw             |-> probability,
       rf_ok           |-> models_loaded /\ rf.ok,
       raised          |-> FALSE]

\* AnalysisSubsystem.__init__ / _initialize_models, when routers/predictions.py
\* is imported
initialize_models ==
  /\ classifier = "unconstructed"
  /\ classifier' \in ClassifierStates
  /\ UNCHANGED <<ingest_vars, pred_in, pred_out, recheck, calc_vars>>

\* routers/predictions.py, predict_failure: the handler calls
\* analysis_subsystem.predict_failure for an existing equipment
PredictFailure ==
  /\ classifier # "unconstructed"
  /\ pred_out = NoPrediction
  /\ \E status \in EquipmentStatuses :
       \E sensors \in [SensorTypes -> SensorFeatureChoices] :
         \E outcome \in RfOutcomes(classifier) :
           LET features == [equipment_status |-> status, sensors |-> sensors]
           IN  /\ pred_in' = features
               /\ pred_out' = predict_failure(features, classifier, outcome)
  /\ UNCHANGED <<ingest_vars, classifier, recheck, calc_vars>>

\* the handler returns the PredictionResponse
ReturnPrediction ==
  /\ pred_out # NoPrediction
  /\ pred_in' = NoFeatures
  /\ pred_out' = NoPrediction
  /\ UNCHANGED <<ingest_vars, classifier, recheck, calc_vars>>

\* --------------------------------------------------- the anomaly detector
\* Readings are whole units here (72 is 72.0). The SensorData rows of a sensor
\* are written as runs, newest first: <<[value |-> 72, count |-> 1],
\* [value |-> 50, count |-> 20]>> is one reading of 72 preceded by twenty of 50.

\* analysis.py:142  .limit(100)
AnomalyWindow == 100

\* the most runs of equal readings a sensor's history has
MaxRuns == 2

\* Equipment ids no row of the equipment table has.
UnknownEquipmentIds == {3}

\* equipment.sensors: equipment 1 has a temperature and a current sensor,
\* equipment 2 a temperature sensor
EquipmentSensors == <<<<"temperature", "current">>, <<"temperature">>>>

ReadingValues(type) == IF type = "temperature" THEN {50, 60, 72, 90}
                                               ELSE {40}
RunLengths(type) == IF type = "temperature" THEN {1, 5, 9, 101} ELSE {3}
Runs(type) == [value : ReadingValues(type), count : RunLengths(type)]

\* the histories a sensor of the type can have; the second sensor of an
\* equipment has no readings or one run
Histories(type) ==
  IF type = "temperature"
    THEN UNION {[1..n -> Runs(type)] : n \in 0..MaxRuns}
    ELSE UNION {[1..n -> Runs(type)] : n \in 0..1}

RECURSIVE RunCount(_)
RunCount(runs) ==
  IF runs = <<>> THEN 0 ELSE Head(runs).count + RunCount(Tail(runs))

RECURSIVE RunSum(_)
RunSum(runs) ==
  IF runs = <<>> THEN 0
  ELSE Head(runs).count * Head(runs).value + RunSum(Tail(runs))

RECURSIVE RunSumSq(_)
RunSumSq(runs) ==
  IF runs = <<>> THEN 0
  ELSE Head(runs).count * Head(runs).value * Head(runs).value
       + RunSumSq(Tail(runs))

RECURSIVE FirstRows(_, _)
FirstRows(runs, n) ==
  IF runs = <<>> \/ n = 0 THEN <<>>
  ELSE IF Head(runs).count >= n
         THEN <<[value |-> Head(runs).value, count |-> n]>>
         ELSE <<Head(runs)>> \o FirstRows(Tail(runs), n - Head(runs).count)

\* faulty variant of recent_data: the query has no limit
recent_data_unlimited(readings) == readings

\* lines 138-144: order_by(timestamp.desc()).limit(100).all()
recent_data(readings) == FirstRows(readings, AnomalyWindow)

\* lines 153-157: with n values of sum s and sum of squares q,
\* |current - mean| = dev / n and std^2 = var / n^2, so z^2 = dev^2 / var;
\* z is 0 when std is 0
z_score(values) ==
  LET n   == RunCount(values)
      s   == RunSum(values)
      q   == RunSumSq(values)
      dev == n * Head(values).value - s
  IN  [dev_sq |-> dev * dev, var |-> n * q - s * s]

\* z_score > k, for a whole k
ZAbove(z, k) == z.var > 0 /\ z.dev_sq > k * k * z.var

AtOrAbove(type, value, level) == 100 * value >= SENSOR_THRESHOLDS[type][level]

\* line 164
is_anomaly(type, current_value, z) ==
  ZAbove(z, 2) \/ AtOrAbove(type, current_value, "warning")

\* faulty variant of anomaly_message: the statistical message from two
\* standard deviations on
anomaly_message_two_sigma(type, current_value, z) ==
  IF AtOrAbove(type, current_value, "critical") THEN "critical"
  ELSE IF AtOrAbove(type, current_value, "warning") THEN "warning"
  ELSE IF ZAbove(z, 2) THEN "statistical"
  ELSE "none"

\* lines 175-180: which message the report carries
anomaly_message(type, current_value, z) ==
  IF AtOrAbove(type, current_value, "critical") THEN "critical"
  ELSE IF AtOrAbove(type, current_value, "warning") THEN "warning"
  ELSE IF ZAbove(z, 3) THEN "statistical"
  ELSE "none"

\* lines 146-182, one sensor that has readings. The report's anomaly_score
\* and expected_range are roundings of z, mean and std for display; z is kept
\* exact as the fraction dev_sq / var.
anomaly_result(type, readings) ==
  LET values == recent_data(readings)
      current_value == Head(values).value
      z == z_score(values)
  IN  [sensor_type   |-> type,
       is_anomaly    |-> is_anomaly(type, current_value, z),
       z             |-> z,
       current_value |-> current_value,
       used          |-> RunCount(values),
       message       |-> anomaly_message(type, current_value, z)]

RECURSIVE SensorReports(_, _, _)
SensorReports(types, readings, i) ==
  IF i > Len(types) THEN <<>>
  ELSE (IF readings[i] = <<>> THEN <<>>
        ELSE <<anomaly_result(types[i], readings[i])>>)
       \o SensorReports(types, readings, i + 1)

\* lines 124-184
detect_anomalies(exists, types, readings) ==
  IF ~exists THEN [kind |-> "reports", reports |-> <<>>]
  ELSE [kind |-> "reports", reports |-> SensorReports(types, readings, 1)]

SensorsOf(id) == IF id \in Equipments THEN EquipmentSensors[id] ELSE <<>>

ReadingsChoices(types) ==
  IF Len(types) = 0 THEN {<<>>}
  ELSE IF Len(types) = 1 THEN {<<h>> : h \in Histories(types[1])}
  ELSE {<<h[1], h[2]>> : h \in Histories(types[1]) \X Histories(types[2])}

\* AnalysisSubsystem.detect_anomalies called with an equipment id
DetectAnomalies ==
  /\ call = NoRequest
  /\ \E id \in Equipments \cup UnknownEquipmentIds :
       \E readings \in ReadingsChoices(SensorsOf(id)) :
         /\ call' = [op |-> "detect_anomalies", via |-> "core",
                     equipment_id |-> id, readings |-> readings]
         /\ ret' = detect_anomalies(id \in Equipments, SensorsOf(id), readings)
  /\ UNCHANGED <<ingest_vars, analysis_vars, recheck>>

\* routers/predictions.py, lines 60-86: GET /{equipment_id}/anomalies
detect_anomalies_endpoint ==
  /\ call = NoRequest
  /\ \E id \in Equipments \cup UnknownEquipmentIds :
       \E readings \in ReadingsChoices(SensorsOf(id)) :
         /\ call' = [op |-> "detect_anomalies", via |-> "router",
                     equipment_id |-> id, readings |-> readings]
         /\ ret' = IF id \notin Equipments THEN [kind |-> "not_found"]
                   ELSE detect_anomalies(TRUE, SensorsOf(id), readings)
  /\ UNCHANGED <<ingest_vars, analysis_vars, recheck>>

\* analysis.py:198-201, the lookup at the head of predict_failure: unknown
\* equipment raises ValueError; known equipment gets a prediction
predict_failure_lookup(exists, features, state, outcome) ==
  IF ~exists THEN [kind |-> "not_found"]
  ELSE [kind |-> "prediction",
        prediction |-> predict_failure(features, state, outcome)]

RequestFeatures(status) ==
  [equipment_status |-> status,
   sensors |-> [k \in SensorTypes |->
                  [present |-> TRUE, level |-> "below", trend |-> "stable"]]]

\* AnalysisSubsystem.predict_failure called with an equipment id
PredictFailureCall ==
  /\ call = NoRequest
  /\ \E id \in Equipments \cup UnknownEquipmentIds :
       \E status \in EquipmentStatuses :
         \E state \in ClassifierStates :
           \E outcome \in RfOutcomes(state) :
             /\ call' = [op |-> "predict_failure", via |-> "core",
                         equipment_id |-> id]
             /\ ret' = predict_failure_lookup(id \in Equipments,
                          RequestFeatures(status), state, outcome)
  /\ UNCHANGED <<ingest_vars, analysis_vars, recheck>>

\* routers/predictions.py, lines 25-57: POST /{equipment_id}
predict_failure_endpoint ==
  /\ call = NoRequest
  /\ \E id \in Equipments \cup UnknownEquipmentIds :
       \E status \in EquipmentStatuses :
         \E state \in ClassifierStates :
           \E outcome \in RfOutcomes(state) :
             /\ call' = [op |-> "predict_failure", via |-> "router",
                         equipment_id |-> id]
             /\ ret' = IF id \notin Equipments THEN [kind |-> "not_found"]
                       ELSE predict_failure_lookup(TRUE,
                              RequestFeatures(status), state, outcome)
  /\ UNCHANGED <<ingest_vars, analysis_vars, recheck>>

\* the call returns to its caller
Return ==
  /\ call # NoRequest
  /\ ret.kind # "running"
  /\ call' = NoRequest
  /\ ret' = NoResult
  /\ UNCHANGED <<ingest_vars, analysis_vars, recheck>>

\* Requests to the analysis subsystem and to its two endpoints
NextAnalysis ==
  \/ DetectAnomalies
  \/ detect_anomalies_endpoint
  \/ PredictFailureCall
  \/ predict_failure_endpoint
  \/ Return

SpecAnalysis == Init /\ [][NextAnalysis]_vars

\* -------------------------------------------------- the sequence forecaster
\* ml/lstm.py. A value v of the series is the whole number v * Unit: seven
\* decimals, which hold the forecasts of whole-numbered histories exactly for
\* six steps.
Unit == 10^7

\* the largest number of steps a predict_sequence call asks for
MaxSteps == 5

\* the largest horizon_hours a predict_anomaly_probability call asks for
MaxHorizon == 2

\* lstm.py:59  historical_data[-10:]
SeedLength == 10

\* lstm.py:120  predictions[:24]
ShownValues == 24

\* np.random.normal(0, 0.5), line 68: draws of -3, 0 and +3 standard deviations
NoiseDraws == {-15 * (Unit \div 10), 0, 15 * (Unit \div 10)}

\* the histories of the calls: none, one, two, three and twelve points
ForecastHistories ==
  { <<>>,
    <<50 * Unit>>,
    <<40 * Unit, 50 * Unit>>,
    <<50 * Unit, 50 * Unit, 50 * Unit>>,
    <<60 * Unit, 40 * Unit, 50 * Unit, 40 * Unit, 50 * Unit, 40 * Unit,
      50 * Unit, 40 * Unit, 50 * Unit, 40 * Unit, 50 * Unit, 60 * Unit>> }

\* threshold_warning and threshold_critical of the calls
ThresholdPairs ==
  { [warning |-> 47 * Unit, critical |-> 50 * Unit],
    [warning |-> 50 * Unit, critical |-> 47 * Unit] }

\* faulty variant of ar_step: the coefficients in reverse order
ar_step_reversed(data) ==
  LET n == Len(data)
  IN  IF n >= 3
        THEN (3 * data[n]) \div 20 + (3 * data[n - 1]) \div 10 + data[n - 2] \div 2
        ELSE data[n]

\* lines 63-71 without the noise: 0.5, 0.3 and 0.15 of the last three points
ar_step(data) ==
  LET n == Len(data)
  IN  IF n >= 3
        THEN data[n] \div 2 + (3 * data[n - 1]) \div 10 + (3 * data[n - 2]) \div 20
        ELSE data[n]

\* faulty variant of next_data: the forecast is not fed back
next_data_not_appended(data, pred) == data

\* line 74
next_data(data, pred) == Append(data, pred)

RECURSIVE MaxOf(_)
MaxOf(q) ==
  IF Len(q) = 1 THEN q[1]
  ELSE IF Head(q) > MaxOf(Tail(q)) THEN Head(q) ELSE MaxOf(Tail(q))

RECURSIVE MinOf(_)
MinOf(q) ==
  IF Len(q) = 1 THEN q[1]
  ELSE IF Head(q) < MinOf(Tail(q)) THEN Head(q) ELSE MinOf(Tail(q))

CountAtOrAbove(q, level) == Cardinality({i \in 1..Len(q) : q[i] >= level})

\* lines 110-121: the summary of a forecast. A probability is the fraction
\* num / den, the mean is (whole * Unit + parts) / den; len(predictions) = 0 makes the division of line 115 raise
\* ZeroDivisionError.
summarise(predictions, threshold_warning, threshold_critical) ==
  IF Len(predictions) = 0
    THEN [kind |-> "raised", error |-> "ZeroDivisionError"]
    ELSE [kind |-> "probabilities",
          warning_probability |->
            [num |-> CountAtOrAbove(predictions, threshold_warning),
             den |-> Len(predictions)],
          critical_probability |->
            [num |-> CountAtOrAbove(predictions, threshold_critical),
             den |-> Len(predictions)],
          predicted_max  |-> MaxOf(predictions),
          predicted_min  |-> MinOf(predictions),
          predicted_mean |->
            [whole |-> SumSeq([i \in 1..Len(predictions) |->
                                 predictions[i] \div Unit]),
             parts |-> SumSeq([i \in 1..Len(predictions) |->
                                 predictions[i] % Unit]),
             den   |-> Len(predictions)],
          predicted_values |->
            SubSeq(predictions, 1, Min(ShownValues, Len(predictions)))]

\* what the caller of predict_sequence gets once the loop of line 61 has ended
finish(c, predictions, data, noise) ==
  IF c.op = "predict_sequence"
    THEN [kind |-> "sequence", predictions |-> predictions, data |-> data,
          noise |-> noise]
    ELSE summarise(predictions, c.threshold_warning, c.threshold_critical)

\* lines 54-59: predict_sequence up to its loop
begin_sequence(c) ==
  LET h == c.history
  IN  IF Len(h) < 3
        THEN finish(c, [i \in 1..c.steps |-> IF h = <<>> THEN 0 ELSE h[Len(h)]],
                    h, <<>>)
        ELSE IF c.steps = 0
          THEN finish(c, <<>>, LastN(h, SeedLength), <<>>)
          ELSE [kind |-> "running", predictions |-> <<>>,
                data |-> LastN(h, SeedLength), noise |-> <<>>]

\* LSTMPredictor.predict_sequence is called
PredictSequence ==
  /\ call = NoRequest
  /\ \E history \in ForecastHistories :
       \E steps \in 0..MaxSteps :
         LET c == [op |-> "predict_sequence", history |-> history,
                   steps |-> steps]
         IN  /\ call' = c
             /\ ret' = begin_sequence(c)
  /\ UNCHANGED <<ingest_vars, analysis_vars, recheck>>

\* LSTMPredictor.predict_anomaly_probability is called, lines 97-108
PredictAnomalyProbability ==
  /\ call = NoRequest
  /\ \E history \in ForecastHistories :
       \E thresholds \in ThresholdPairs :
         \E horizon_hours \in 0..MaxHorizon :
           LET c == [op |-> "predict_anomaly_probability",
                     history |-> history,
                     threshold_warning |-> thresholds.warning,
                     threshold_critical |-> thresholds.critical,
                     horizon_hours |-> horizon_hours,
                     steps |-> horizon_hours * 2]
           IN  /\ call' = c
               /\ ret' = IF history = <<>>
                           THEN [kind |-> "probabilities",
                                 warning_probability |-> [num |-> 0, den |-> 1],
                                 critical_probability |-> [num |-> 0, den |-> 1],
                                 predicted_max |-> 0,
                                 predicted_values |-> <<>>]
                           ELSE begin_sequence(c)
  /\ UNCHANGED <<ingest_vars, analysis_vars, recheck>>

\* one pass of the loop of lines 61-74; after the last one the call returns
ForecastStep ==
  /\ ret.kind = "running"
  /\ \E draw \in NoiseDraws :
       LET pred        == ar_step(ret.data) + draw
           predictions == Append(ret.predictions, pred)
           data        == next_data(ret.data, pred)
           noise       == Append(ret.noise, draw)
       IN  ret' = IF Len(predictions) = call.steps
                    THEN finish(call, predictions, data, noise)
                    ELSE [kind |-> "running", predictions |-> predictions,
                          data |-> data, noise |-> noise]
  /\ UNCHANGED <<ingest_vars, analysis_vars, recheck, call>>

\* Calls of the forecaster
NextForecast ==
  \/ PredictSequence
  \/ PredictAnomalyProbability
  \/ ForecastStep
  \/ Return

SpecForecast == Init /\ [][NextForecast]_vars

\* ------------------------------------------------------- trend estimation
\* the longest series a trend is asked for, besides the series 1..10
MaxPoints == 5

TrendValues == {-100, 0, 100, 101}

\* the series of the calls, oldest point first
TrendSeries ==
  UNION {[1..n -> TrendValues] : n \in 0..MaxPoints}
  \cup {[i \in 1..10 |-> i]}

Reverse(q) == [i \in 1..Len(q) |-> q[Len(q) + 1 - i]]

\* lstm.py:134-139: the sums of the least-squares slope over x = 0..n-1;
\* slope = num / den
linear_fit(data) ==
  LET n   == Len(data)
      sx  == SumSeq([i \in 1..n |-> i - 1])
      sxx == SumSeq([i \in 1..n |-> (i - 1) * (i - 1)])
      sy  == SumSeq(data)
      sxy == SumSeq([i \in 1..n |-> (i - 1) * data[i]])
  IN  [n |-> n, sy |-> sy, num |-> n * sxy - sx * sy, den |-> n * sxx - sx * sx]

\* faulty variant of normalized_slope: the slope is not divided by the mean
normalized_slope_raw(fit) == [num |-> fit.num, den |-> fit.den]

\* lines 142-143: slope / mean as a fraction with a positive denominator,
\* 0 when the mean is 0
normalized_slope(fit) ==
  IF fit.sy = 0 THEN [num |-> 0, den |-> 1]
  ELSE IF fit.sy > 0 THEN [num |-> fit.num * fit.n, den |-> fit.den * fit.sy]
  ELSE [num |-> -(fit.num * fit.n), den |-> -(fit.den * fit.sy)]

\* lines 146-151
trend_direction(ns) ==
  IF 100 * ns.num > ns.den THEN "increasing"
  ELSE IF 100 * ns.num < -ns.den THEN "decreasing"
  ELSE "stable"

\* lines 153 and 157: min(|normalized slope| * 100, 1.0) rounded to two
\* decimals, in hundredths
trend_strength(ns) ==
  IF 100 * Abs(ns.num) >= ns.den THEN 100
  ELSE RoundDiv(10000 * Abs(ns.num), ns.den)

\* lines 123-159; slope is in ten-thousandths (round(slope, 4))
detect_trend(data) ==
  IF Len(data) < 5 THEN [kind |-> "trend", direction |-> "unknown", strength |-> 0]
  ELSE LET fit == linear_fit(data)
           ns  == normalized_slope(fit)
       IN  [kind |-> "trend",
            direction |-> trend_direction(ns),
            strength  |-> trend_strength(ns),
            slope     |-> RoundDiv(10000 * fit.num, fit.den)]

\* analysis.py:106-122: the label from the means of the first and the last
\* third of the list it is given (both thirds have `third` values, so the
\* means compare as the sums do)
calculate_trend(values) ==
  IF Len(values) < 3 THEN "stable"
  ELSE LET third == Len(values) \div 3
           first == SumSeq(SubSeq(values, 1, third))
           last  == SumSeq(SubSeq(values, Len(values) - third + 1, Len(values)))
       IN  IF first = 0 THEN "stable"
           ELSE IF first > 0
             THEN (IF 100 * (last - first) > 10 * first THEN "increasing"
                   ELSE IF 100 * (last - first) < -10 * first THEN "decreasing"
                   ELSE "stable")
             ELSE (IF 100 * (last - first) < 10 * first THEN "increasing"
                   ELSE IF 100 * (last - first) > -10 * first THEN "decreasing"
                   ELSE "stable")

\* analysis.py:248-266: the rows of the last 24 hours, newest first
\* (order_by(timestamp.desc())), and the label _calculate_trend gives them
extract_trend(readings) ==
  LET values == Reverse(readings)
  IN  [kind |-> "features", values |-> values,
       trend |-> calculate_trend(values)]

\* LSTMPredictor.detect_trend is called
DetectTrend ==
  /\ call = NoRequest
  /\ \E data \in TrendSeries :
       /\ call' = [op |-> "detect_trend", data |-> data]
       /\ ret' = detect_trend(data)
  /\ UNCHANGED <<ingest_vars, analysis_vars, recheck>>

\* _extract_features reaches a sensor whose readings of the last 24 hours
\* are, oldest first, `readings`
ExtractFeatures ==
  /\ call = NoRequest
  /\ \E readings \in TrendSeries :
       /\ call' = [op |-> "extract_features", readings |-> readings]
       /\ ret' = extract_trend(readings)
  /\ UNCHANGED <<ingest_vars, analysis_vars, recheck>>

\* Calls of the two trend estimators
NextTrend ==
  \/ DetectTrend
  \/ ExtractFeatures
  \/ Return

SpecTrend == Init /\ [][NextTrend]_vars

\* The background task, the clock, the request handler and the shutdown
Next ==
  \/ StartCycle
  \/ ProcessSensor
  \/ CommitCycle
  \/ CycleRaises
  \/ Tick
  \/ update_equipment_status
  \/ RequestCancel
  \/ DeliverCancel
  \/ ShutdownReturns

Spec == Init /\ [][Next]_vars

\* The ingest loop and the clock, over a database whose calls succeed
NextClock ==
  \/ StartCycle
  \/ ProcessSensor
  \/ CommitCycle
  \/ Tick

SpecClock == Init /\ [][NextClock]_vars

\* The ingest loop and the request handler that writes Equipment.status
NextStatus ==
  \/ StartCycle
  \/ ProcessSensor
  \/ CommitCycle
  \/ update_equipment_status

SpecStatus == Init /\ [][NextStatus]_vars

\* The ingest loop over a database whose calls can raise
NextFault ==
  \/ StartCycle
  \/ ProcessSensor
  \/ CommitCycle
  \/ CycleRaises

SpecFault == Init /\ [][NextFault]_vars

\* The ingest loop and the shutdown of the process; the event loop resumes a
\* task that is ready, and lifespan when the task it awaits is done
NextShutdown ==
  \/ StartCycle
  \/ ProcessSensor
  \/ CommitCycle
  \/ RequestCancel
  \/ DeliverCancel
  \/ ShutdownReturns

SpecShutdown ==
  /\ Init
  /\ [][NextShutdown]_vars
  /\ WF_vars(DeliverCancel)
  /\ WF_vars(ShutdownReturns)

\* The ingest loop with a repeated threshold check, and the request handler
\* that writes Equipment.status
NextEvaluate ==
  \/ StartCycle
  \/ ProcessSensor
  \/ CheckThresholdsAgain
  \/ CommitCycle
  \/ update_equipment_status

SpecEvaluate == Init /\ [][NextEvaluate]_vars

\* The prediction endpoint
NextPredict ==
  \/ initialize_models
  \/ PredictFailure
  \/ ReturnPrediction

SpecPredict == Init /\ [][NextPredict]_vars

\* filter_data called directly, with any key and value
FilterCall ==
  /\ UNCHANGED <<analysis_vars, recheck, calc_vars>>
  /\ Len(raw_log["temperature"]) + Len(raw_log["vibration"]) < MaxCalls
  /\ \E key \in FilterKeys :
       \E value \in FilterValues(key) :
         LET rv == filter_data(recent_values, value, key)
         IN  /\ recent_values' = rv
             /\ filter_out' = [key |-> key, value |-> FilterMean(rv[key])]
             /\ raw_log' = [raw_log EXCEPT ![key] = Append(@, value)]
  /\ UNCHANGED <<pc, shutdown, idx, cycle_no, active, clock, db_status,
                 sess_status, db_alerts, sess_alerts, db_readings,
                 sess_readings, own_raw, ev, processed, cycle_alerts,
                 last_outcome>>

NextFilter == FilterCall

SpecFilter == Init /\ [][NextFilter]_vars

\* ------------------------------------------------------------ properties
AllAlerts == db_alerts \cup sess_alerts

\* the state right after a loop iteration, which ev describes
JustProcessed ==
  pc = "cycle" /\ idx > 1 /\ ev.cycle = cycle_no /\ ev.sensor = idx - 1

\* the alert the last iteration created, and the alerts that were there before
EventAlerts == {a \in AllAlerts : a.id = ev.created}
PriorAlerts == {a \in AllAlerts : a.id # ev.created}

\* the severity the configured band assigns to a stored value
ExpectedSeverity(s, v) ==
  LET band == SENSOR_THRESHOLDS[SensorTypeOf[s]]
  IN  CASE v >= band.critical                     -> "critical"
        [] v >= band.warning /\ v < band.critical -> "warning"
        [] OTHER                                  -> "none"

InCooldown(a) == clock - a.timestamp <= CooldownMinutes

\* C1: the n-th call of filter_data for a key returns the mean, rounded to
\* two decimals, of the last min(5, n) raw values passed for that key; the
\* history of a key holds the last five raw values at most, the oldest one
\* being evicted; the first call returns its own input.
C1_TrailingMean ==
  /\ \A k \in SensorTypes :
       /\ Len(recent_values[k]) <= NoiseFilterWindow
       /\ recent_values[k] = LastN(raw_log[k], NoiseFilterWindow)
  /\ filter_out # NoFilterCall =>
       LET log   == raw_log[filter_out.key]
           n     == Len(log)
           m     == Min(NoiseFilterWindow, n)
           lastm == [i \in 1..m |-> log[n - m + i]]
       IN  /\ 2 * Abs(m * filter_out.value - SumSeq(lastm)) <= m
           /\ n = 1 => filter_out.value = log[1]

\* a sixth call for a key whose result differs from the mean of all six values
C1_Witness ==
  /\ filter_out # NoFilterCall
  /\ LET log == raw_log[filter_out.key]
     IN  /\ Len(log) = NoiseFilterWindow + 1
         /\ log[1] # log[Len(log)]
         /\ 2 * Abs(Len(log) * filter_out.value - SumSeq(log)) > Len(log)

\* C2: the filter state of one sensor does not leak into another: the value
\* the cycle smooths for a sensor is the mean of that sensor's own last raw
\* values, also when another equipment carries a sensor of the same type.
C2_NoLeakAcrossSensors ==
  JustProcessed => ev.filtered = FilterMean(own_raw[ev.sensor])

\* C3: a raw value outside the physical range of its sensor type is rejected
\* before it reaches the noise filter: every value in a filter history is
\* within the range of its type.
C3_HistoryWithinRange ==
  \A k \in SensorTypes :
    \A i \in 1..Len(recent_values[k]) : validate_data(k, recent_values[k][i])

\* C4: with no recent alert for the sensor, a stored value at or above the
\* critical threshold creates a CRITICAL alert, a value at or above the
\* warning threshold and below the critical one a WARNING alert, a lower value
\* no alert; a type without a configured band yields no alert; for the band
\* 70 / 85, 90 is CRITICAL, 72 is WARNING and 50 creates nothing.
C4_SeverityFromBand ==
  /\ ThresholdSeverity("temperature", 9000) = "critical"
  /\ ThresholdSeverity("temperature", 7200) = "warning"
  /\ ThresholdSeverity("temperature", 5000) = "none"
  /\ ThresholdSeverity("humidity", 9000) = "none"
  /\ ( /\ JustProcessed
       /\ ev.stored
       /\ ~ \E a \in PriorAlerts : a.sensor_id = ev.sensor /\ InCooldown(a) )
     => LET expected == ExpectedSeverity(ev.sensor, ev.filtered)
        IN  IF expected = "none"
              THEN ev.created = 0
              ELSE /\ EventAlerts # {}
                   /\ \A a \in EventAlerts : /\ a.sensor_id = ev.sensor
                                             /\ a.severity = expected
                                             /\ a.timestamp = clock

\* a value equal to the warning threshold has created a WARNING alert
C4_Witness ==
  /\ JustProcessed
  /\ ev.stored
  /\ ev.filtered = SENSOR_THRESHOLDS[SensorTypeOf[ev.sensor]].warning
  /\ \E a \in EventAlerts : a.severity = "warning"

\* C5: a stored value in an alert band creates no alert while an alert of the
\* same sensor and severity has a timestamp within the last 5 minutes, and
\* creates one once more than 5 minutes have passed; two alerts of the same
\* sensor and severity are never less than 5 minutes apart.
C5_Cooldown ==
  /\ ( /\ JustProcessed
       /\ ev.stored
       /\ ExpectedSeverity(ev.sensor, ev.filtered) # "none" )
     => ( ev.created = 0
          <=> \E a \in PriorAlerts :
                /\ a.sensor_id = ev.sensor
                /\ a.severity = ExpectedSeverity(ev.sensor, ev.filtered)
                /\ clock - a.timestamp <= CooldownMinutes )
  /\ \A a, b \in AllAlerts :
       (a.id # b.id /\ a.sensor_id = b.sensor_id /\ a.severity = b.severity)
       => Abs(a.timestamp - b.timestamp) >= CooldownMinutes

\* a value in a band is suppressed by an alert that is exactly 5 minutes old
C5_Witness ==
  /\ JustProcessed
  /\ ev.stored
  /\ ev.created = 0
  /\ \E a \in PriorAlerts :
       /\ a.sensor_id = ev.sensor
       /\ a.severity = ExpectedSeverity(ev.sensor, ev.filtered)
       /\ clock - a.timestamp = CooldownMinutes

\* C6: suppression is per severity and per sensor: a value in a band is
\* suppressed only by a recent alert of the same sensor and the same severity;
\* a recent alert of the other severity, or of another sensor, suppresses
\* nothing.
C6_SuppressionPerSensorAndSeverity ==
  ( /\ JustProcessed
    /\ ev.stored
    /\ ExpectedSeverity(ev.sensor, ev.filtered) # "none"
    /\ \A a \in PriorAlerts :
         InCooldown(a) =>
           \/ a.sensor_id # ev.sensor
           \/ a.severity # ExpectedSeverity(ev.sensor, ev.filtered) )
  => \E a \in EventAlerts :
       /\ a.sensor_id = ev.sensor
       /\ a.severity = ExpectedSeverity(ev.sensor, ev.filtered)

\* an alert was created while the same sensor had a recent alert of the other
\* severity and the other sensor a recent alert of the same severity
C6_Witness ==
  /\ JustProcessed
  /\ EventAlerts # {}
  /\ \E a \in PriorAlerts :
       /\ InCooldown(a)
       /\ a.sensor_id = ev.sensor
       /\ a.severity # ExpectedSeverity(ev.sensor, ev.filtered)
  /\ \E b \in PriorAlerts :
       /\ InCooldown(b)
       /\ b.sensor_id # ev.sensor
       /\ b.severity = ExpectedSeverity(ev.sensor, ev.filtered)

\* the last iteration stored a value at or above the critical threshold
EventCritical ==
  ev.stored /\ ev.filtered >= SENSOR_THRESHOLDS[SensorTypeOf[ev.sensor]].critical

\* C7: an iteration changes the status of the sensor's equipment if and only
\* if the stored value is at or above the critical threshold, and then to
\* error, whatever the status was and also when the alert is suppressed; below
\* the threshold every status is left as it was; no step of the ingest cycle
\* moves an equipment out of error, and the cycle commits the status it set.
C7_ErrorIffCritical ==
  /\ [](JustProcessed =>
          sess_status =
            IF EventCritical
              THEN [ev.status_before EXCEPT ![SensorEquipment[ev.sensor]] = "error"]
              ELSE ev.status_before)
  /\ [][ (pc = "cycle" \/ pc' = "cycle") =>
           \A e \in Equipments :
             /\ db_status[e] = "error" => db_status'[e] = "error"
             /\ sess_status[e] = "error" => sess_status'[e] = "error" ]_vars
  /\ [][ (pc = "cycle" /\ pc' = "sleep") => db_status' = sess_status ]_vars

\* a critical value whose alert was suppressed has moved an equipment that an
\* operator had set back to online into error again
C7_Witness ==
  /\ JustProcessed
  /\ EventCritical
  /\ ev.created = 0
  /\ ev.status_before[SensorEquipment[ev.sensor]] = "online"
  /\ sess_status[SensorEquipment[ev.sensor]] = "error"

\* C8: the notifier is called once for each newly created CRITICAL alert, and
\* not for a WARNING alert, not for a suppressed alert, and not a second time
\* for the same alert.
C8_NotifierOncePerCritical ==
  /\ \A a \in AllAlerts :
       a.notify_calls = IF a.severity = "critical" THEN 1 ELSE 0
  /\ JustProcessed =>
       ev.notify_calls =
         IF \E a \in EventAlerts : a.severity = "critical" THEN 1 ELSE 0

\* a critical value was suppressed without a call, while a notified CRITICAL
\* alert and an unnotified WARNING alert are stored
C8_Witness ==
  /\ JustProcessed
  /\ EventCritical
  /\ ev.created = 0
  /\ ev.notify_calls = 0
  /\ \E a \in AllAlerts : a.severity = "critical" /\ a.notify_calls = 1
  /\ \E a \in AllAlerts : a.severity = "warning" /\ a.notify_calls = 0

C10_CyclesNeverOverlap ==
  /\ active <= 1
  /\ active = 1 <=> pc = "cycle"
  /\ (pc = "sleep" /\ last_outcome = "raised" /\ cycle_no < MaxCycles)
     => ENABLED StartCycle

\* a cycle is running that was started after the previous cycle raised
C10_Witness ==
  /\ pc = "cycle"
  /\ active = 1
  /\ cycle_no >= 2
  /\ last_outcome = "raised"

\* the sensors with a committed reading of the current cycle
CommittedSensors == {r.sensor_id : r \in db_readings}

\* the alerts of the current cycle that are committed
CommittedCycleAlerts == {a \in db_alerts : a.id \in cycle_alerts}

\* C11: a single bad sensor does not halt collection for the others: when
\* processing one sensor raises during a cycle, the other sensors of that
\* cycle are still processed, so at most one sensor is missing from the cycle.
C11_OtherSensorsStillCollected ==
  (pc = "sleep" /\ last_outcome = "raised")
  => Cardinality(Sensors \ processed) <= 1

\* C12: the writes of a cycle are committed atomically: nothing of a cycle is
\* committed between its first and its last sensor, and a cycle that raised
\* has left none of its readings and alerts committed.
C12_CommitAtomicPerCycle ==
  (pc = "cycle" \/ (pc = "sleep" /\ last_outcome = "raised"))
  => (db_readings = {} /\ CommittedCycleAlerts = {})

\* C13: cancelling the ingest task at shutdown takes effect only where the
\* task sleeps between cycles, never between two sensors, so the last cycle
\* has processed every sensor and committed what it stored, and no session is
\* left open; the shutdown handler terminates.
C13_CancelBetweenCycles ==
  /\ [](pc = "cancelled" =>
          /\ active = 0
          /\ sess_readings = {} /\ sess_alerts = {}
          /\ cycle_no > 0 => /\ processed = Sensors
                             /\ last_outcome = "committed"
                             /\ \A id \in cycle_alerts :
                                  \E a \in db_alerts : a.id = id)
  /\ [][pc' = "cancelled" /\ pc # "cancelled" => pc \in {"start", "sleep"}]_vars
  /\ (shutdown = "cancel_requested") ~> (shutdown = "done")

\* the shutdown handler has returned after a cycle that stored readings
C13_Witness ==
  /\ shutdown = "done"
  /\ pc = "cancelled"
  /\ cycle_no > 0
  /\ processed = Sensors
  /\ CommittedSensors = Sensors

\* a predict_failure call has returned pred_out for the features pred_in
Predicted == pred_out # NoPrediction

RiskLevels == {"low", "medium", "high", "critical"}

\* the number of entries of a list that are equal to x
Count(list, x) == Cardinality({i \in 1..Len(list) : list[i] = x})

\* the sensor types with data whose current value is at or above a level
TypesAtOrAbove(level) ==
  {k \in SensorTypes : /\ pred_in.sensors[k].present
                       /\ CurrentValue(pred_in, k) >= SENSOR_THRESHOLDS[k][level]}

\* the sensor types with data whose trend is increasing
TypesIncreasing ==
  {k \in SensorTypes : /\ pred_in.sensors[k].present
                       /\ pred_in.sensors[k].trend = "increasing"}

\* C14: for every existing equipment and every state of the classifier,
\* predict_failure returns a prediction and propagates no classifier error;
\* the probability and the confidence are in [0, 1] and the risk tier is one
\* of low, medium, high, critical.
C14_PredictionAlwaysReturned ==
  Predicted =>
    /\ ~pred_out.raised
    /\ pred_out.probability \in 0..100
    /\ pred_out.confidence \in 0..100
    /\ pred_out.risk_level \in RiskLevels

\* without a classifier, a feature vector whose contributions add up to more
\* than 1 has got the probability 0.99
C14_Witness ==
  /\ Predicted
  /\ classifier = "not_loaded"
  /\ StatusContribution(pred_in) + SumContributions(pred_in, 1) > 1000
  /\ pred_out.probability = 99

\* C15: whenever no classifier is available or the classifier call fails, the
\* probability predict_failure returns is the heuristic score of the feature
\* vector.
C15_FallbackIsHeuristic ==
  (Predicted /\ ~pred_out.rf_ok)
  => pred_out.raw = heuristic_prediction(pred_in)

\* C16: the confidence is 0.75 exactly when the probability was produced by a
\* successful classifier call, and 0.5 otherwise.
C16_ConfidenceTellsSource ==
  Predicted =>
    pred_out.confidence = IF pred_out.rf_ok THEN 75 ELSE 50

\* the heuristic score the formula of C17 gives to the features pred_in
FormulaScore ==
  LET status == IF pred_in.equipment_status = "error" THEN 400
                ELSE IF pred_in.equipment_status = "offline" THEN 200
                ELSE 0
      sum    == 100 + status
                + 300 * Cardinality(TypesAtOrAbove("critical"))
                + 150 * Cardinality(TypesAtOrAbove("warning")
                                      \ TypesAtOrAbove("critical"))
                + 50 * Cardinality(TypesIncreasing)
  IN  IF sum < 990 THEN sum ELSE 990

NoSensorData == [k \in SensorTypes |-> [present |-> FALSE, level |-> "below", trend |-> "stable"]]
NominalData == [k \in SensorTypes |-> [present |-> TRUE, level |-> "below", trend |-> "stable"]]

\* C17: the heuristic score is min(0.99, 0.1 + 0.4 for error or 0.2 for
\* offline + for each sensor type 0.3 at or above critical, else 0.15 at or
\* above warning, + 0.05 for an increasing trend); it lies in [0.1, 0.99];
\* error without sensor data gives 0.5 (medium), online with one sensor at
\* critical 0.4 (medium), online with all sensors nominal 0.1 (low).
C17_HeuristicScore ==
  /\ (Predicted /\ classifier = "not_loaded") =>
       /\ pred_out.raw = FormulaScore
       /\ pred_out.raw >= 100 /\ pred_out.raw <= 990
  /\ heuristic_prediction([equipment_status |-> "error", sensors |-> NoSensorData]) = 500
  /\ get_risk_level(500) = "medium"
  /\ heuristic_prediction(
       [equipment_status |-> "online",
        sensors |-> [NoSensorData EXCEPT !["vibration"] =
                       [present |-> TRUE, level |-> "critical", trend |-> "stable"]]]) = 400
  /\ get_risk_level(400) = "medium"
  /\ heuristic_prediction([equipment_status |-> "online", sensors |-> NominalData]) = 100
  /\ get_risk_level(100) = "low"

\* the heuristic has scored offline equipment with a sensor at its warning
\* level and two increasing trends
C17_Witness ==
  /\ Predicted
  /\ classifier = "not_loaded"
  /\ pred_in.equipment_status = "offline"
  /\ Cardinality(TypesAtOrAbove("warning")) = 1
  /\ Cardinality(TypesIncreasing) = 2
  /\ pred_out.raw = 550

\* C18: the risk tier of a prediction is the one the mapping assigns to its
\* probability field (rounded to two decimals): critical iff >= 0.8, high iff
\* in [0.6, 0.8), medium iff in [0.3, 0.6), low iff < 0.3.
C18_TierMatchesProbabilityField ==
  Predicted =>
    pred_out.risk_level =
      (IF pred_out.probability >= 80 THEN "critical"
       ELSE IF pred_out.probability >= 60 THEN "high"
       ELSE IF pred_out.probability >= 30 THEN "medium"
       ELSE "low")

\* C19: the risk-factor list is never empty and holds exactly: the error
\* entry iff the status is error, one entry for each sensor type at or above
\* its warning level, one entry for each sensor type whose trend is
\* increasing; the placeholder appears iff none of these apply, and then it is
\* the only entry.
C19_RiskFactors ==
  Predicted =>
    LET factors == pred_out.factors
        none    == /\ pred_in.equipment_status # "error"
                   /\ TypesAtOrAbove("warning") = {}
                   /\ TypesIncreasing = {}
    IN  /\ Len(factors) >= 1
        /\ Count(factors, ErrorFactor)
             = IF pred_in.equipment_status = "error" THEN 1 ELSE 0
        /\ \A k \in SensorTypes :
             /\ Count(factors, ElevatedFactor(k))
                  = IF k \in TypesAtOrAbove("warning") THEN 1 ELSE 0
             /\ Count(factors, TrendFactor(k))
                  = IF k \in TypesIncreasing THEN 1 ELSE 0
        /\ Count(factors, NoFactors) = IF none THEN 1 ELSE 0
        /\ none => factors = <<NoFactors>>
        /\ Len(factors)
             = Count(factors, ErrorFactor) + Count(factors, NoFactors)
               + Cardinality(TypesAtOrAbove("warning"))
               + Cardinality(TypesIncreasing)

\* equipment in error with a sensor type that is both at its warning level and
\* increasing has got the three entries
C19_Witness ==
  /\ Predicted
  /\ pred_in.equipment_status = "error"
  /\ TypesAtOrAbove("warning") \cap TypesIncreasing # {}
  /\ Len(pred_out.factors) >= 3
  /\ Count(pred_out.factors, NoFactors) = 0

\* the recommendation of each category of risk factors
CategoryRecommendation ==
  [temperature |-> "check_cooling_system",
   vibration   |-> "check_balance_and_mounting",
   pressure    |-> "check_sealing"]

\* C20: the recommendations are the fixed text of the risk tier, followed by
\* exactly one recommendation for each of the categories temperature,
\* vibration and pressure that has at least one risk factor, be it a threshold
\* factor or an increasing-trend factor of that sensor type.
C20_RecommendationPerCategory ==
  Predicted =>
    LET tier == TierRecommendations(pred_out.risk_level)
        recs == pred_out.recommendations
    IN  /\ Len(recs) >= Len(tier)
        /\ SubSeq(recs, 1, Len(tier)) = tier
        /\ \A k \in DOMAIN CategoryRecommendation :
             Count(recs, CategoryRecommendation[k])
               = IF k \in TypesAtOrAbove("warning") \cup TypesIncreasing
                   THEN 1 ELSE 0

\* C30: the notification-sent flag of an alert is set only after an email for
\* that alert was delivered: is_email_sent = 1 implies that send_alert
\* returned success; it stays 0 when delivery fails; it is never set on a
\* WARNING alert.
C30_FlagOnlyAfterDelivery ==
  \A a \in AllAlerts :
    /\ a.is_email_sent = 1 => a.delivered
    /\ a.severity = "warning" => a.is_email_sent = 0

\* the threshold check has been repeated for the iteration ev describes
Rechecked ==
  JustProcessed /\ recheck.cycle = cycle_no /\ recheck.sensor = ev.sensor

RECURSIVE ReadingAt(_, _)
ReadingAt(runs, i) ==
  IF i <= Head(runs).count THEN Head(runs).value
  ELSE ReadingAt(Tail(runs), i - Head(runs).count)

\* detect_anomalies has answered for an equipment that exists
AnomaliesReported ==
  /\ call.op = "detect_anomalies"
  /\ call.equipment_id \in Equipments
  /\ ret.kind = "reports"

\* the sensors of the requested equipment that have readings
WithReadings ==
  {i \in 1..Len(call.readings) : call.readings[i] # <<>>}

\* the sensor the k-th report is about, if the reports follow sensor order
SensorOfReport(k) ==
  CHOOSE i \in WithReadings : Cardinality({j \in WithReadings : j <= i}) = k

\* the number of readings of history h the detector may use
WindowSize(h) == Min(RunCount(h), AnomalyWindow)

\* sum of the n newest readings of h
RECURSIVE WindowSum(_, _)
WindowSum(h, n) ==
  IF n = 0 THEN 0 ELSE ReadingAt(h, n) + WindowSum(h, n - 1)

\* sum over the n newest readings x of (n * x - s)^2, from the k-th down
RECURSIVE SquaredDeviations(_, _, _, _)
SquaredDeviations(h, n, s, k) ==
  IF k = 0 THEN 0
  ELSE (n * ReadingAt(h, k) - s) * (n * ReadingAt(h, k) - s)
       + SquaredDeviations(h, n, s, k - 1)

\* mean and standard deviation of the window of h, scaled to whole numbers:
\* current - mean = dev / n, std^2 = var / n^2
WindowStats(h) ==
  LET n == WindowSize(h)
      s == WindowSum(h, n)
  IN  [n   |-> n,
       dev |-> Abs(n * ReadingAt(h, 1) - s),
       var |-> SquaredDeviations(h, n, s, n) \div n]

\* |current - mean| / std > k, and 0 > k never
ScoreAbove(st, k) == st.var > 0 /\ st.dev * st.dev > k * k * st.var

WarningLevel(type) == SENSOR_THRESHOLDS[type].warning
CriticalLevel(type) == SENSOR_THRESHOLDS[type].critical

\* C21: detect_anomalies emits exactly one report for each sensor of the
\* equipment that has a reading, in sensor order, and none for a sensor
\* without readings; a report is computed over the sensor's 100 newest readings
\* at most, its current value is the newest one, its z is
\* |current - mean| / std, or 0 when std is 0, and is_anomaly is
\* (z > 2 or current >= warning level); for a window with std = 0 is_anomaly
\* is (current >= warning level).
C21_OneReportPerSensorWithReadings ==
  AnomaliesReported =>
    /\ Len(ret.reports) = Cardinality(WithReadings)
    /\ \A k \in 1..Len(ret.reports) :
         LET i    == SensorOfReport(k)
             type == EquipmentSensors[call.equipment_id][i]
             h    == call.readings[i]
             st   == WindowStats(h)
             r    == ret.reports[k]
             over == 100 * ReadingAt(h, 1) >= WarningLevel(type)
         IN  /\ r.sensor_type = type
             /\ r.used = st.n
             /\ r.current_value = ReadingAt(h, 1)
             /\ r.z.dev_sq = st.dev * st.dev
             /\ r.z.var = st.var
             /\ r.is_anomaly = (ScoreAbove(st, 2) \/ over)
             /\ st.var = 0 => r.is_anomaly = over

\* equipment 1: the current sensor has no readings and is skipped, the
\* temperature sensor has more than 100 of which 100 are used; its newest
\* reading is below the warning level and more than two standard deviations
\* from the mean
C21_Witness ==
  /\ AnomaliesReported
  /\ Len(call.readings) = 2
  /\ call.readings[2] = <<>>
  /\ RunCount(call.readings[1]) > AnomalyWindow
  /\ Len(ret.reports) = 1
  /\ ret.reports[1].used = AnomalyWindow
  /\ ret.reports[1].is_anomaly
  /\ 100 * ret.reports[1].current_value < WarningLevel("temperature")

\* the message the precedence rule gives a sensor type, value and statistics
ExpectedMessage(type, value, st) ==
  CASE 100 * value >= CriticalLevel(type) -> "critical"
    [] 100 * value < CriticalLevel(type) /\ 100 * value >= WarningLevel(type)
         -> "warning"
    [] 100 * value < WarningLevel(type) /\ ScoreAbove(st, 3) -> "statistical"
    [] OTHER -> "none"

\* C22: the message of a report is the critical-value message if current >=
\* critical, else the warning message if current >= warning, else the
\* statistical message if z > 3, else none; every report with a message is an
\* anomaly, and a report with 2 < z <= 3 below the warning level is an anomaly
\* without a message.
C22_MessagePrecedence ==
  AnomaliesReported /\ Len(ret.reports) = Cardinality(WithReadings) =>
    \A k \in 1..Len(ret.reports) :
      LET i    == SensorOfReport(k)
          type == EquipmentSensors[call.equipment_id][i]
          h    == call.readings[i]
          st   == WindowStats(h)
          r    == ret.reports[k]
      IN  /\ r.message = ExpectedMessage(type, ReadingAt(h, 1), st)
          /\ r.message # "none" => r.is_anomaly
          /\ ( /\ ScoreAbove(st, 2)
               /\ ~ScoreAbove(st, 3)
               /\ 100 * ReadingAt(h, 1) < WarningLevel(type) )
             => r.is_anomaly /\ r.message = "none"

\* a reading below the warning level, between two and three standard
\* deviations from the mean of its window
C22_Witness ==
  /\ AnomaliesReported
  /\ \E k \in 1..Len(ret.reports) :
       LET r == ret.reports[k]
       IN  /\ 100 * r.current_value < WarningLevel(r.sensor_type)
           /\ r.z.var > 0
           /\ r.z.dev_sq > 4 * r.z.var
           /\ r.z.dev_sq <= 9 * r.z.var
           /\ r.is_anomaly
           /\ r.message = "none"

\* C23: a prediction request and an anomaly request for an equipment id that
\* does not exist both end as a not-found condition, never as a result, and
\* not-found is the only error the two operations hand to their caller.
C23_UnknownEquipmentNotFound ==
  call.op \in {"predict_failure", "detect_anomalies"} =>
    /\ call.equipment_id \notin Equipments => ret.kind = "not_found"
    /\ call.equipment_id \in Equipments =>
         ret.kind \in {"prediction", "reports"}

\* ------------------------------------------------------------ forecasts
\* predict_sequence has returned
SequenceReturned == call.op = "predict_sequence" /\ ret.kind = "sequence"

\* the series a forecast continues: the last ten points of the history,
\* followed by the forecast values
Continued == LastN(call.history, SeedLength) \o ret.predictions

\* C24: predict_sequence returns exactly `steps` values. For a history of
\* fewer than 3 points each is the last point of the history, or 0 for an
\* empty history. Otherwise the k-th value is 0.5, 0.3 and 0.15 of the three
\* points before it in the series made of the last 10 points of the history
\* and the values generated so far, plus the k-th noise draw; the three
\* products are whole numbers of the unit, so nothing is rounded.
C24_ForecastIsAutoregressive ==
  SequenceReturned =>
    /\ Len(ret.predictions) = call.steps
    /\ Len(call.history) < 3 =>
         \A k \in 1..call.steps :
           ret.predictions[k] =
             IF call.history = <<>> THEN 0
             ELSE call.history[Len(call.history)]
    /\ Len(call.history) >= 3 =>
         /\ ret.data = Continued
         /\ \A k \in 1..call.steps :
              LET t == Min(Len(call.history), SeedLength) + k
                  a == Continued[t - 1]
                  b == Continued[t - 2]
                  c == Continued[t - 3]
              IN  /\ a % 2 = 0 /\ (3 * b) % 10 = 0 /\ (3 * c) % 20 = 0
                  /\ ret.predictions[k] - ret.noise[k] =
                       a \div 2 + (3 * b) \div 10 + (3 * c) \div 20

\* a forecast of five steps from the twelve-point history with a nonzero
\* draw: the fourth and fifth values rest on generated values alone
C24_Witness ==
  /\ SequenceReturned
  /\ Len(call.history) > SeedLength
  /\ call.steps >= 5
  /\ Len(ret.predictions) = call.steps
  /\ ret.noise[1] # 0
  /\ ret.noise[2] = 0

\* C25: with history [50, 50, 50], 5 steps and every noise draw within 1.5,
\* each of the 5 forecast values lies in [48.5, 51.5].
C25_ForecastStaysNearSeed ==
  ( /\ SequenceReturned
    /\ call.history = <<50 * Unit, 50 * Unit, 50 * Unit>>
    /\ call.steps = 5
    /\ \A k \in 1..Len(ret.noise) : Abs(ret.noise[k]) <= 15 * (Unit \div 10) )
  => \A k \in 1..5 :
       /\ ret.predictions[k] >= 485 * (Unit \div 10)
       /\ ret.predictions[k] <= 515 * (Unit \div 10)

\* predict_anomaly_probability has ended, by returning or by raising
ProbabilityCallEnded ==
  call.op = "predict_anomaly_probability" /\ ret.kind # "running"

\* C26: predict_anomaly_probability forecasts horizon_hours * 2 steps and
\* returns the fractions of forecast points at or above the warning and the
\* critical level, with the first min(24, steps) points; for an empty history
\* the probabilities are 0 and the list is empty. For every history and every
\* horizon_hours >= 0 it returns without raising, both probabilities are in
\* [0, 1], and the warning probability is at least the critical one whenever
\* the warning level is at most the critical level.
C26_ProbabilitiesAlwaysReturned ==
  ProbabilityCallEnded =>
    /\ ret.kind = "probabilities"
    /\ Len(ret.predicted_values) = (IF call.history = <<>> THEN 0
                                    ELSE Min(ShownValues, call.steps))
    /\ \A p \in {ret.warning_probability, ret.critical_probability} :
         /\ p.den > 0
         /\ 0 <= p.num
         /\ p.num <= p.den
         /\ call.history = <<>> => p.num = 0
         /\ call.history # <<>> => p.den = 2 * call.horizon_hours
    /\ call.threshold_warning <= call.threshold_critical =>
         ret.warning_probability.num * ret.critical_probability.den
           >= ret.critical_probability.num * ret.warning_probability.den

\* --------------------------------------------------------------- trends
TrendReturned == call.op = "detect_trend" /\ ret.kind = "trend"

\* n times the deviation of the i-th index from the mean index
IndexDeviation(n, i) == n * (i - 1) - SumSeq([j \in 1..n |-> j - 1])

\* n times the deviation of the i-th point of data from the mean of data
PointDeviation(data, i) == Len(data) * data[i] - SumSeq(data)

\* the least-squares slope of data over its index is covariance / variance;
\* both are sums of products of deviations, divided by their common factor n
SlopeCovariance(data) ==
  SumSeq([i \in 1..Len(data) |->
            IndexDeviation(Len(data), i) * PointDeviation(data, i)])
  \div Len(data)

SlopeVariance(data) ==
  SumSeq([i \in 1..Len(data) |->
            IndexDeviation(Len(data), i) * IndexDeviation(Len(data), i)])
  \div Len(data)

\* slope / mean > k / 100, for a mean that is not 0
NormalizedSlopeAbove(data, k) ==
  LET cov == SlopeCovariance(data) * Len(data)
      den == SlopeVariance(data) * SumSeq(data)
  IN  IF den > 0 THEN 100 * cov > k * den ELSE 100 * cov < k * den

\* slope / mean < k / 100, for a mean that is not 0
NormalizedSlopeBelow(data, k) ==
  LET cov == SlopeCovariance(data) * Len(data)
      den == SlopeVariance(data) * SumSeq(data)
  IN  IF den > 0 THEN 100 * cov < k * den ELSE 100 * cov > k * den

ExpectedDirection(data) ==
  IF SumSeq(data) = 0 THEN "stable"
  ELSE IF NormalizedSlopeAbove(data, 1) THEN "increasing"
  ELSE IF NormalizedSlopeBelow(data, -1) THEN "decreasing"
  ELSE "stable"

IsConstant(data) == \A i \in 1..Len(data) : data[i] = data[1]

\* C28: detect_trend gives direction 'unknown' and strength 0 for fewer than 5
\* points; otherwise the least-squares slope divided by the mean (0 if the
\* mean is 0) gives increasing above 0.01, decreasing below -0.01, else
\* stable, and the strength is min(|normalized slope| * 100, 1) to two
\* decimals, always in [0, 1]. The series 1..10 is increasing with strength
\* > 0 and a constant series is stable with strength 0.
C28_RegressionTrend ==
  TrendReturned =>
    LET data == call.data
        s    == ret.strength
    IN  /\ Len(data) < 5 => ret.direction = "unknown" /\ s = 0
        /\ Len(data) >= 5 =>
             /\ ret.direction = ExpectedDirection(data)
             /\ s >= 0 /\ s <= 100
             /\ SumSeq(data) = 0 => s = 0
             /\ SumSeq(data) # 0 =>
                  LET cov == Abs(SlopeCovariance(data) * Len(data))
                      den == Abs(SlopeVariance(data) * SumSeq(data))
                  IN  IF 100 * cov >= den THEN s = 100
                      ELSE /\ 2 * 10000 * cov <= (2 * s + 1) * den
                           /\ 2 * 10000 * cov >= (2 * s - 1) * den
             /\ IsConstant(data) => ret.direction = "stable" /\ s = 0
        /\ data = [i \in 1..10 |-> i] =>
             ret.direction = "increasing" /\ s > 0

\* a series of at least five points that rises by less than one hundredth of
\* its mean per step: stable, with a strength strictly between 0 and 1
C28_Witness ==
  /\ TrendReturned
  /\ Len(call.data) >= 5
  /\ ~IsConstant(call.data)
  /\ ret.direction = "stable"
  /\ ret.strength > 0
  /\ ret.strength < 100

FeaturesReturned == call.op = "extract_features" /\ ret.kind = "features"

\* sum of the earliest and of the latest third of the readings, oldest first
EarliestThird(r) == SumSeq(SubSeq(r, 1, Len(r) \div 3))
LatestThird(r) == SumSeq(SubSeq(r, Len(r) - Len(r) \div 3 + 1, Len(r)))

\* (latest - earliest) / earliest * 100, compared with p
ChangeAbove(r, p) ==
  IF EarliestThird(r) > 0
    THEN 100 * (LatestThird(r) - EarliestThird(r)) > p * EarliestThird(r)
    ELSE 100 * (LatestThird(r) - EarliestThird(r)) < p * EarliestThird(r)

ChangeBelow(r, p) ==
  IF EarliestThird(r) > 0
    THEN 100 * (LatestThird(r) - EarliestThird(r)) < p * EarliestThird(r)
    ELSE 100 * (LatestThird(r) - EarliestThird(r)) > p * EarliestThird(r)

\* C29: the trend label of feature extraction follows time order: with at
\* least 3 readings it is 'increasing' exactly when the mean of the latest
\* third exceeds the mean of the earliest third by more than 10%,
\* 'decreasing' when it is lower by more than 10%, and 'stable' otherwise,
\* also for fewer than 3 readings or an earliest-third mean of 0.
C29_TrendFollowsTimeOrder ==
  FeaturesReturned =>
    LET r == call.readings
    IN  ret.trend =
          IF Len(r) < 3 \/ EarliestThird(r) = 0 THEN "stable"
          ELSE IF ChangeAbove(r, 10) THEN "increasing"
          ELSE IF ChangeBelow(r, -10) THEN "decreasing"
          ELSE "stable"

====
